---------------------------- MODULE Spec2Model ----------------------------
(***************************************************************************)
(* A model of urlche.py: the URL status checker.  For every URL of a batch *)
(* main() makes a direct probe and, when that fails, a remote check        *)
(* (check_url: submission with one CSRF resubmission, then a poll loop),   *)
(* classifies the remote answer (analyze_result, map_node_to_country, the  *)
(* India filter) and appends one row; the rows are exported as CSV.        *)
(*                                                                         *)
(* Python strings are sequences of one-character strings, so that strip,   *)
(* startswith, the CSRF pattern search, int(), the prefix lookup and the   *)
(* CSV quoting are computed character by character.  A parsed JSON value   *)
(* is a tagged record.  An HTTP reply pairs the body text with what        *)
(* response.json() gives for that text.                                    *)
(***************************************************************************)
EXTENDS Integers, Sequences, FiniteSets, TLC

\* ------------------------------------------------------------ Python values

\* None (also what JSON null parses to)
None == [t |-> "none"]

\* response.json() raising ValueError
Invalid == [t |-> "invalid"]

JBool(b) == [t |-> "bool", b |-> b]

JInt(n) == [t |-> "int", n |-> n]

\* a float whole + tenths/10 (whole >= 0, tenths in 0..9)
JFloat(w, d) == [t |-> "float", whole |-> w, tenths |-> d]

JStr(s) == [t |-> "str", s |-> s]

JList(xs) == [t |-> "list", xs |-> xs]

\* a dict keeps insertion order: a sequence of <<key, value>> pairs
JDict(kv) == [t |-> "dict", kv |-> kv]

\* Python truth value of a value
Truthy(v) ==
    CASE v.t = "none" -> FALSE
      [] v.t = "bool" -> v.b
      [] v.t = "int" -> v.n # 0
      [] v.t = "float" -> v.whole # 0 \/ v.tenths # 0
      [] v.t = "str" -> v.s # <<>>
      [] v.t = "list" -> v.xs # <<>>
      [] v.t = "dict" -> v.kv # <<>>

\* an HTTP reply: the body and what response.json() makes of it
Reply(text, json) == [exc |-> FALSE, text |-> text, json |-> json]

\* a request that raises (timeout, DNS, connection refused, TLS)
TransportError == [exc |-> TRUE, text |-> <<>>, json |-> Invalid]

\* ------------------------------------------------------------ string literals

\* 'Active (Direct)'
ActiveDirect ==
    <<"A", "c", "t", "i", "v", "e", " ", "(", "D", "i", "r", "e", "c", "t", ")">>

\* 'Active (Other Countries)'
ActiveOther ==
    <<"A", "c", "t", "i", "v", "e", " ", "(", "O", "t", "h", "e", "r", " ", "C", "o", "u", "n",
    "t", "r", "i", "e", "s", ")">>

\* 'Inactive (No non-India nodes)'
InactiveNoNonIndia ==
    <<"I", "n", "a", "c", "t", "i", "v", "e", " ", "(", "N", "o", " ", "n", "o", "n", "-", "I",
    "n", "d", "i", "a", " ", "n", "o", "d", "e", "s", ")">>

\* 'Inactive'
Inactive ==
    <<"I", "n", "a", "c", "t", "i", "v", "e">>

\* 'Error retrieving API data'
ErrorRetrieving ==
    <<"E", "r", "r", "o", "r", " ", "r", "e", "t", "r", "i", "e", "v", "i", "n", "g", " ", "A",
    "P", "I", " ", "d", "a", "t", "a">>

\* 'India'
India ==
    <<"I", "n", "d", "i", "a">>

\* ', '
CommaSpace ==
    <<",", " ">>

\* 'request_id'
request_id_key ==
    <<"r", "e", "q", "u", "e", "s", "t", "_", "i", "d">>

\* the literal prefix of the pattern name="csrf_token" value="(.+?)"
CsrfPattern ==
    <<"n", "a", "m", "e", "=", "\"", "c", "s", "r", "f", "_", "t", "o", "k", "e", "n", "\"",
    " ", "v", "a", "l", "u", "e", "=", "\"">>

\* 'URL'
ColURL ==
    <<"U", "R", "L">>

\* 'Status'
ColStatus ==
    <<"S", "t", "a", "t", "u", "s">>

\* 'Other Active Countries'
ColOther ==
    <<"O", "t", "h", "e", "r", " ", "A", "c", "t", "i", "v", "e", " ", "C", "o", "u", "n", "t",
    "r", "i", "e", "s">>

\* the prefix table of map_node_to_country
mapping ==
    << <<<<"u", "s">>, <<"U", "S", "A">>>>,
       <<<<"c", "h">>, <<"S", "w", "i", "t", "z", "e", "r", "l", "a", "n", "d">>>>,
       <<<<"p", "t">>, <<"P", "o", "r", "t", "u", "g", "a", "l">>>>,
       <<<<"r", "u">>, <<"R", "u", "s", "s", "i", "a">>>>,
       <<<<"d", "e">>, <<"G", "e", "r", "m", "a", "n", "y">>>>,
       <<<<"i", "n">>, <<"I", "n", "d", "i", "a">>>>,
       <<<<"u", "k">>, <<"U", "n", "i", "t", "e", "d", " ", "K", "i", "n", "g", "d", "o", "m">>>>,
       <<<<"f", "r">>, <<"F", "r", "a", "n", "c", "e">>>>,
       <<<<"j", "p">>, <<"J", "a", "p", "a", "n">>>> >>

LowerAlphabet ==
    <<"a", "b", "c", "d", "e", "f", "g", "h", "i", "j", "k", "l", "m", "n", "o", "p", "q", "r", "s", "t", "u", "v", "w", "x", "y", "z">>

UpperAlphabet ==
    <<"A", "B", "C", "D", "E", "F", "G", "H", "I", "J", "K", "L", "M", "N", "O", "P", "Q", "R", "S", "T", "U", "V", "W", "X", "Y", "Z">>

Digits ==
    <<"0", "1", "2", "3", "4", "5", "6", "7", "8", "9">>

\* body '{"request_id":"r1"}'
SubJson ==
    Reply(<<"{", "\"", "r", "e", "q", "u", "e", "s", "t", "_", "i", "d", "\"", ":", "\"", "r",
    "1", "\"", "}">>, JDict(<<<<<<"r", "e", "q", "u", "e", "s", "t", "_", "i", "d">>,
    JStr(<<"r", "1">>)>>>>))

\* body ' \n{"request_id":"r1"}'
SubJsonIndented ==
    Reply(<<" ", "\n", "{", "\"", "r", "e", "q", "u", "e", "s", "t", "_", "i", "d", "\"", ":",
    "\"", "r", "1", "\"", "}">>, JDict(<<<<<<"r", "e", "q", "u", "e", "s", "t", "_", "i",
    "d">>, JStr(<<"r", "1">>)>>>>))

\* body '{"error":"limit exceeded"}'
SubJsonNoId ==
    Reply(<<"{", "\"", "e", "r", "r", "o", "r", "\"", ":", "\"", "l", "i", "m", "i", "t", " ",
    "e", "x", "c", "e", "e", "d", "e", "d", "\"", "}">>, JDict(<<<<<<"e", "r", "r", "o", "r">>,
    JStr(<<"l", "i", "m", "i", "t", " ", "e", "x", "c", "e", "e", "d", "e", "d">>)>>>>))

\* body '{"request_id":null}'
SubJsonNullId ==
    Reply(<<"{", "\"", "r", "e", "q", "u", "e", "s", "t", "_", "i", "d", "\"", ":", "n", "u",
    "l", "l", "}">>, JDict(<<<<<<"r", "e", "q", "u", "e", "s", "t", "_", "i", "d">>, None>>>>))

\* body '{oops'
SubBadJson ==
    Reply(<<"{", "o", "o", "p", "s">>, Invalid)

\* body '<input name="csrf_token" value="tk9">'
SubHtmlToken ==
    Reply(<<"<", "i", "n", "p", "u", "t", " ", "n", "a", "m", "e", "=", "\"", "c", "s", "r",
    "f", "_", "t", "o", "k", "e", "n", "\"", " ", "v", "a", "l", "u", "e", "=", "\"", "t", "k",
    "9", "\"", ">">>, Invalid)

\* body '<html>blocked</html>'
SubHtmlNoToken ==
    Reply(<<"<", "h", "t", "m", "l", ">", "b", "l", "o", "c", "k", "e", "d", "<", "/", "h",
    "t", "m", "l", ">">>, Invalid)

\* body '<input name="csrf_token" value="">'
SubHtmlEmptyValue ==
    Reply(<<"<", "i", "n", "p", "u", "t", " ", "n", "a", "m", "e", "=", "\"", "c", "s", "r",
    "f", "_", "t", "o", "k", "e", "n", "\"", " ", "v", "a", "l", "u", "e", "=", "\"", "\"",
    ">">>, Invalid)

\* body 'name="csrf_token" value="\n"name="csrf_token" value="tk9" '
SubHtmlTokenNewline ==
    Reply(<<"n", "a", "m", "e", "=", "\"", "c", "s", "r", "f", "_", "t", "o", "k", "e", "n",
    "\"", " ", "v", "a", "l", "u", "e", "=", "\"", "\n", "\"", "n", "a", "m", "e", "=", "\"",
    "c", "s", "r", "f", "_", "t", "o", "k", "e", "n", "\"", " ", "v", "a", "l", "u", "e", "=",
    "\"", "t", "k", "9", "\"", " ">>, Invalid)

\* body ''
SubEmpty ==
    Reply(<<>>, Invalid)

\* body ''
PollEmpty ==
    Reply(<<>>, Invalid)

\* body ' \n'
PollBlank ==
    Reply(<<" ", "\n">>, Invalid)

\* body '<html>'
PollHtml ==
    Reply(<<"<", "h", "t", "m", "l", ">">>, Invalid)

\* body '{}'
PollEmptyDict ==
    Reply(<<"{", "}">>, JDict(<<>>))

\* body 'null'
PollNull ==
    Reply(<<"n", "u", "l", "l">>, None)

\* body '[1]'
PollList ==
    Reply(<<"[", "1", "]">>, JList(<<JInt(1)>>))

\* body '{"us1.node":[[1, 0.1, "OK", 200, "1.2.3.4"]], "in2.node":[[1,0.1,"OK",200,"5.6.7.8"]]}'
PollSpecExample ==
    Reply(<<"{", "\"", "u", "s", "1", ".", "n", "o", "d", "e", "\"", ":", "[", "[", "1", ",",
    " ", "0", ".", "1", ",", " ", "\"", "O", "K", "\"", ",", " ", "2", "0", "0", ",", " ",
    "\"", "1", ".", "2", ".", "3", ".", "4", "\"", "]", "]", ",", " ", "\"", "i", "n", "2",
    ".", "n", "o", "d", "e", "\"", ":", "[", "[", "1", ",", "0", ".", "1", ",", "\"", "O", "K",
    "\"", ",", "2", "0", "0", ",", "\"", "5", ".", "6", ".", "7", ".", "8", "\"", "]", "]",
    "}">>, JDict(<<<<<<"u", "s", "1", ".", "n", "o", "d", "e">>, JList(<<JList(<<JInt(1),
    JFloat(0, 1), JStr(<<"O", "K">>), JInt(200), JStr(<<"1", ".", "2", ".", "3", ".",
    "4">>)>>)>>)>>, <<<<"i", "n", "2", ".", "n", "o", "d", "e">>, JList(<<JList(<<JInt(1),
    JFloat(0, 1), JStr(<<"O", "K">>), JInt(200), JStr(<<"5", ".", "6", ".", "7", ".",
    "8">>)>>)>>)>>>>))

\* body '{"in1.node":[[1,0.1,"OK","200","1.1.1.1"]],"IN2":[[1,0.2,"Moved",301,"2.2.2.2"]],"us1.node":[[0,0.1,"Connection refused",null,null]]}'
PollOnlyIndia ==
    Reply(<<"{", "\"", "i", "n", "1", ".", "n", "o", "d", "e", "\"", ":", "[", "[", "1", ",",
    "0", ".", "1", ",", "\"", "O", "K", "\"", ",", "\"", "2", "0", "0", "\"", ",", "\"", "1",
    ".", "1", ".", "1", ".", "1", "\"", "]", "]", ",", "\"", "I", "N", "2", "\"", ":", "[",
    "[", "1", ",", "0", ".", "2", ",", "\"", "M", "o", "v", "e", "d", "\"", ",", "3", "0", "1",
    ",", "\"", "2", ".", "2", ".", "2", ".", "2", "\"", "]", "]", ",", "\"", "u", "s", "1",
    ".", "n", "o", "d", "e", "\"", ":", "[", "[", "0", ",", "0", ".", "1", ",", "\"", "C", "o",
    "n", "n", "e", "c", "t", "i", "o", "n", " ", "r", "e", "f", "u", "s", "e", "d", "\"", ",",
    "n", "u", "l", "l", ",", "n", "u", "l", "l", "]", "]", "}">>, JDict(<<<<<<"i", "n", "1",
    ".", "n", "o", "d", "e">>, JList(<<JList(<<JInt(1), JFloat(0, 1), JStr(<<"O", "K">>),
    JStr(<<"2", "0", "0">>), JStr(<<"1", ".", "1", ".", "1", ".", "1">>)>>)>>)>>, <<<<"I", "N",
    "2">>, JList(<<JList(<<JInt(1), JFloat(0, 2), JStr(<<"M", "o", "v", "e", "d">>), JInt(301),
    JStr(<<"2", ".", "2", ".", "2", ".", "2">>)>>)>>)>>, <<<<"u", "s", "1", ".", "n", "o", "d",
    "e">>, JList(<<JList(<<JInt(0), JFloat(0, 1), JStr(<<"C", "o", "n", "n", "e", "c", "t",
    "i", "o", "n", " ", "r", "e", "f", "u", "s", "e", "d">>), None, None>>)>>)>>>>))

\* body '{"us1.node":[[0,0.1,"Connection refused",null,null]],"de1.node":[[1,0.1,"Not Found","404","3.3.3.3"]],"fr1.node":null,"in1.node":[[1,0.1,"Error",500,"1.1.1.1"]]}'
PollNoneActive ==
    Reply(<<"{", "\"", "u", "s", "1", ".", "n", "o", "d", "e", "\"", ":", "[", "[", "0", ",",
    "0", ".", "1", ",", "\"", "C", "o", "n", "n", "e", "c", "t", "i", "o", "n", " ", "r", "e",
    "f", "u", "s", "e", "d", "\"", ",", "n", "u", "l", "l", ",", "n", "u", "l", "l", "]", "]",
    ",", "\"", "d", "e", "1", ".", "n", "o", "d", "e", "\"", ":", "[", "[", "1", ",", "0", ".",
    "1", ",", "\"", "N", "o", "t", " ", "F", "o", "u", "n", "d", "\"", ",", "\"", "4", "0",
    "4", "\"", ",", "\"", "3", ".", "3", ".", "3", ".", "3", "\"", "]", "]", ",", "\"", "f",
    "r", "1", ".", "n", "o", "d", "e", "\"", ":", "n", "u", "l", "l", ",", "\"", "i", "n", "1",
    ".", "n", "o", "d", "e", "\"", ":", "[", "[", "1", ",", "0", ".", "1", ",", "\"", "E", "r",
    "r", "o", "r", "\"", ",", "5", "0", "0", ",", "\"", "1", ".", "1", ".", "1", ".", "1",
    "\"", "]", "]", "}">>, JDict(<<<<<<"u", "s", "1", ".", "n", "o", "d", "e">>,
    JList(<<JList(<<JInt(0), JFloat(0, 1), JStr(<<"C", "o", "n", "n", "e", "c", "t", "i", "o",
    "n", " ", "r", "e", "f", "u", "s", "e", "d">>), None, None>>)>>)>>, <<<<"d", "e", "1", ".",
    "n", "o", "d", "e">>, JList(<<JList(<<JInt(1), JFloat(0, 1), JStr(<<"N", "o", "t", " ",
    "F", "o", "u", "n", "d">>), JStr(<<"4", "0", "4">>), JStr(<<"3", ".", "3", ".", "3", ".",
    "3">>)>>)>>)>>, <<<<"f", "r", "1", ".", "n", "o", "d", "e">>, None>>, <<<<"i", "n", "1",
    ".", "n", "o", "d", "e">>, JList(<<JList(<<JInt(1), JFloat(0, 1), JStr(<<"E", "r", "r",
    "o", "r">>), JInt(500), JStr(<<"1", ".", "1", ".", "1", ".", "1">>)>>)>>)>>>>))

\* body '{"de1.node":[[1,0.1,"OK","200","3.3.3.3"]],"in1.node":[[1,0.1,"OK",200,"1.1.1.1"]],"xx9":[[1,0.3,"OK",399,"9.9.9.9"]],"JP1.node":[[1,0.1,"OK",200,"4.4.4.4"]],"de5.node":[[1,0.2,"OK",204,"5.5.5.5"]]}'
PollMixed ==
    Reply(<<"{", "\"", "d", "e", "1", ".", "n", "o", "d", "e", "\"", ":", "[", "[", "1", ",",
    "0", ".", "1", ",", "\"", "O", "K", "\"", ",", "\"", "2", "0", "0", "\"", ",", "\"", "3",
    ".", "3", ".", "3", ".", "3", "\"", "]", "]", ",", "\"", "i", "n", "1", ".", "n", "o", "d",
    "e", "\"", ":", "[", "[", "1", ",", "0", ".", "1", ",", "\"", "O", "K", "\"", ",", "2",
    "0", "0", ",", "\"", "1", ".", "1", ".", "1", ".", "1", "\"", "]", "]", ",", "\"", "x",
    "x", "9", "\"", ":", "[", "[", "1", ",", "0", ".", "3", ",", "\"", "O", "K", "\"", ",",
    "3", "9", "9", ",", "\"", "9", ".", "9", ".", "9", ".", "9", "\"", "]", "]", ",", "\"",
    "J", "P", "1", ".", "n", "o", "d", "e", "\"", ":", "[", "[", "1", ",", "0", ".", "1", ",",
    "\"", "O", "K", "\"", ",", "2", "0", "0", ",", "\"", "4", ".", "4", ".", "4", ".", "4",
    "\"", "]", "]", ",", "\"", "d", "e", "5", ".", "n", "o", "d", "e", "\"", ":", "[", "[",
    "1", ",", "0", ".", "2", ",", "\"", "O", "K", "\"", ",", "2", "0", "4", ",", "\"", "5",
    ".", "5", ".", "5", ".", "5", "\"", "]", "]", "}">>, JDict(<<<<<<"d", "e", "1", ".", "n",
    "o", "d", "e">>, JList(<<JList(<<JInt(1), JFloat(0, 1), JStr(<<"O", "K">>), JStr(<<"2",
    "0", "0">>), JStr(<<"3", ".", "3", ".", "3", ".", "3">>)>>)>>)>>, <<<<"i", "n", "1", ".",
    "n", "o", "d", "e">>, JList(<<JList(<<JInt(1), JFloat(0, 1), JStr(<<"O", "K">>), JInt(200),
    JStr(<<"1", ".", "1", ".", "1", ".", "1">>)>>)>>)>>, <<<<"x", "x", "9">>,
    JList(<<JList(<<JInt(1), JFloat(0, 3), JStr(<<"O", "K">>), JInt(399), JStr(<<"9", ".", "9",
    ".", "9", ".", "9">>)>>)>>)>>, <<<<"J", "P", "1", ".", "n", "o", "d", "e">>,
    JList(<<JList(<<JInt(1), JFloat(0, 1), JStr(<<"O", "K">>), JInt(200), JStr(<<"4", ".", "4",
    ".", "4", ".", "4">>)>>)>>)>>, <<<<"d", "e", "5", ".", "n", "o", "d", "e">>,
    JList(<<JList(<<JInt(1), JFloat(0, 2), JStr(<<"O", "K">>), JInt(204), JStr(<<"5", ".", "5",
    ".", "5", ".", "5">>)>>)>>)>>>>))

\* body '{"us2":[[1,0.1,"OK",400,"a"]],"ch1":[[true,0.1,"OK",200.5,"a"]],"pt1":[[1,0.1,"OK"]],"ru1":[["1",0.1,"OK"," 3_0_2\\n","a"]],"uk1":[[1,0.1,"OK",199,"a"],[1,0.1,"OK",200,"a"]],"fr2":[],"jp2":[[]],"de2":{"a":[[1,0,"",200,""]]},"de3":[[2,0.1,"OK",200,"a"]],"de4":[[1,0.1,"OK",0,"a"]],"us3":["1xx2"],"us4":[[1.5,0,"",200,""]],"us5":[[1,0,"","2x0",""]],"us6":[7],"us7":[{"0":1}],"us8":"[[1,0,0,200,0]]","us9":[[null,0,"",200,""]],"u":[[1,0,"",200,""]],"":[[1,0,"",200,""]],"ch2":[["1.0",0,"",200,""]],"ch3":[[0.5,0,"",200,""]]}'
PollEdgeTuples ==
    Reply(<<"{", "\"", "u", "s", "2", "\"", ":", "[", "[", "1", ",", "0", ".", "1", ",", "\"",
    "O", "K", "\"", ",", "4", "0", "0", ",", "\"", "a", "\"", "]", "]", ",", "\"", "c", "h",
    "1", "\"", ":", "[", "[", "t", "r", "u", "e", ",", "0", ".", "1", ",", "\"", "O", "K",
    "\"", ",", "2", "0", "0", ".", "5", ",", "\"", "a", "\"", "]", "]", ",", "\"", "p", "t",
    "1", "\"", ":", "[", "[", "1", ",", "0", ".", "1", ",", "\"", "O", "K", "\"", "]", "]",
    ",", "\"", "r", "u", "1", "\"", ":", "[", "[", "\"", "1", "\"", ",", "0", ".", "1", ",",
    "\"", "O", "K", "\"", ",", "\"", " ", "3", "_", "0", "_", "2", "\\", "n", "\"", ",", "\"",
    "a", "\"", "]", "]", ",", "\"", "u", "k", "1", "\"", ":", "[", "[", "1", ",", "0", ".",
    "1", ",", "\"", "O", "K", "\"", ",", "1", "9", "9", ",", "\"", "a", "\"", "]", ",", "[",
    "1", ",", "0", ".", "1", ",", "\"", "O", "K", "\"", ",", "2", "0", "0", ",", "\"", "a",
    "\"", "]", "]", ",", "\"", "f", "r", "2", "\"", ":", "[", "]", ",", "\"", "j", "p", "2",
    "\"", ":", "[", "[", "]", "]", ",", "\"", "d", "e", "2", "\"", ":", "{", "\"", "a", "\"",
    ":", "[", "[", "1", ",", "0", ",", "\"", "\"", ",", "2", "0", "0", ",", "\"", "\"", "]",
    "]", "}", ",", "\"", "d", "e", "3", "\"", ":", "[", "[", "2", ",", "0", ".", "1", ",",
    "\"", "O", "K", "\"", ",", "2", "0", "0", ",", "\"", "a", "\"", "]", "]", ",", "\"", "d",
    "e", "4", "\"", ":", "[", "[", "1", ",", "0", ".", "1", ",", "\"", "O", "K", "\"", ",",
    "0", ",", "\"", "a", "\"", "]", "]", ",", "\"", "u", "s", "3", "\"", ":", "[", "\"", "1",
    "x", "x", "2", "\"", "]", ",", "\"", "u", "s", "4", "\"", ":", "[", "[", "1", ".", "5",
    ",", "0", ",", "\"", "\"", ",", "2", "0", "0", ",", "\"", "\"", "]", "]", ",", "\"", "u",
    "s", "5", "\"", ":", "[", "[", "1", ",", "0", ",", "\"", "\"", ",", "\"", "2", "x", "0",
    "\"", ",", "\"", "\"", "]", "]", ",", "\"", "u", "s", "6", "\"", ":", "[", "7", "]", ",",
    "\"", "u", "s", "7", "\"", ":", "[", "{", "\"", "0", "\"", ":", "1", "}", "]", ",", "\"",
    "u", "s", "8", "\"", ":", "\"", "[", "[", "1", ",", "0", ",", "0", ",", "2", "0", "0", ",",
    "0", "]", "]", "\"", ",", "\"", "u", "s", "9", "\"", ":", "[", "[", "n", "u", "l", "l",
    ",", "0", ",", "\"", "\"", ",", "2", "0", "0", ",", "\"", "\"", "]", "]", ",", "\"", "u",
    "\"", ":", "[", "[", "1", ",", "0", ",", "\"", "\"", ",", "2", "0", "0", ",", "\"", "\"",
    "]", "]", ",", "\"", "\"", ":", "[", "[", "1", ",", "0", ",", "\"", "\"", ",", "2", "0",
    "0", ",", "\"", "\"", "]", "]", ",", "\"", "c", "h", "2", "\"", ":", "[", "[", "\"", "1",
    ".", "0", "\"", ",", "0", ",", "\"", "\"", ",", "2", "0", "0", ",", "\"", "\"", "]", "]",
    ",", "\"", "c", "h", "3", "\"", ":", "[", "[", "0", ".", "5", ",", "0", ",", "\"", "\"",
    ",", "2", "0", "0", ",", "\"", "\"", "]", "]", "}">>, JDict(<<<<<<"u", "s", "2">>,
    JList(<<JList(<<JInt(1), JFloat(0, 1), JStr(<<"O", "K">>), JInt(400),
    JStr(<<"a">>)>>)>>)>>, <<<<"c", "h", "1">>, JList(<<JList(<<JBool(TRUE), JFloat(0, 1),
    JStr(<<"O", "K">>), JFloat(200, 5), JStr(<<"a">>)>>)>>)>>, <<<<"p", "t", "1">>,
    JList(<<JList(<<JInt(1), JFloat(0, 1), JStr(<<"O", "K">>)>>)>>)>>, <<<<"r", "u", "1">>,
    JList(<<JList(<<JStr(<<"1">>), JFloat(0, 1), JStr(<<"O", "K">>), JStr(<<" ", "3", "_", "0",
    "_", "2", "\n">>), JStr(<<"a">>)>>)>>)>>, <<<<"u", "k", "1">>, JList(<<JList(<<JInt(1),
    JFloat(0, 1), JStr(<<"O", "K">>), JInt(199), JStr(<<"a">>)>>), JList(<<JInt(1), JFloat(0,
    1), JStr(<<"O", "K">>), JInt(200), JStr(<<"a">>)>>)>>)>>, <<<<"f", "r", "2">>,
    JList(<<>>)>>, <<<<"j", "p", "2">>, JList(<<JList(<<>>)>>)>>, <<<<"d", "e", "2">>,
    JDict(<<<<<<"a">>, JList(<<JList(<<JInt(1), JInt(0), JStr(<<>>), JInt(200),
    JStr(<<>>)>>)>>)>>>>)>>, <<<<"d", "e", "3">>, JList(<<JList(<<JInt(2), JFloat(0, 1),
    JStr(<<"O", "K">>), JInt(200), JStr(<<"a">>)>>)>>)>>, <<<<"d", "e", "4">>,
    JList(<<JList(<<JInt(1), JFloat(0, 1), JStr(<<"O", "K">>), JInt(0), JStr(<<"a">>)>>)>>)>>,
    <<<<"u", "s", "3">>, JList(<<JStr(<<"1", "x", "x", "2">>)>>)>>, <<<<"u", "s", "4">>,
    JList(<<JList(<<JFloat(1, 5), JInt(0), JStr(<<>>), JInt(200), JStr(<<>>)>>)>>)>>, <<<<"u",
    "s", "5">>, JList(<<JList(<<JInt(1), JInt(0), JStr(<<>>), JStr(<<"2", "x", "0">>),
    JStr(<<>>)>>)>>)>>, <<<<"u", "s", "6">>, JList(<<JInt(7)>>)>>, <<<<"u", "s", "7">>,
    JList(<<JDict(<<<<<<"0">>, JInt(1)>>>>)>>)>>, <<<<"u", "s", "8">>, JStr(<<"[", "[", "1",
    ",", "0", ",", "0", ",", "2", "0", "0", ",", "0", "]", "]">>)>>, <<<<"u", "s", "9">>,
    JList(<<JList(<<None, JInt(0), JStr(<<>>), JInt(200), JStr(<<>>)>>)>>)>>, <<<<"u">>,
    JList(<<JList(<<JInt(1), JInt(0), JStr(<<>>), JInt(200), JStr(<<>>)>>)>>)>>, <<<<>>,
    JList(<<JList(<<JInt(1), JInt(0), JStr(<<>>), JInt(200), JStr(<<>>)>>)>>)>>, <<<<"c", "h",
    "2">>, JList(<<JList(<<JStr(<<"1", ".", "0">>), JInt(0), JStr(<<>>), JInt(200),
    JStr(<<>>)>>)>>)>>, <<<<"c", "h", "3">>, JList(<<JList(<<JFloat(0, 5), JInt(0), JStr(<<>>),
    JInt(200), JStr(<<>>)>>)>>)>>>>))

\* body '{"x\\ny":[[1,0.1,"OK",200,"a"]]}'
PollNewlineId ==
    Reply(<<"{", "\"", "x", "\\", "n", "y", "\"", ":", "[", "[", "1", ",", "0", ".", "1", ",",
    "\"", "O", "K", "\"", ",", "2", "0", "0", ",", "\"", "a", "\"", "]", "]", "}">>,
    JDict(<<<<<<"x", "\n", "y">>, JList(<<JList(<<JInt(1), JFloat(0, 1), JStr(<<"O", "K">>),
    JInt(200), JStr(<<"a">>)>>)>>)>>>>))

\* ------------------------------------------------------------ str methods

Whitespace == {" ", "\t", "\n", "\r"}

RECURSIVE lstrip(_)
lstrip(s) ==
    IF s # <<>> /\ Head(s) \in Whitespace THEN lstrip(Tail(s)) ELSE s

RECURSIVE rstrip(_)
rstrip(s) ==
    IF s # <<>> /\ s[Len(s)] \in Whitespace
    THEN rstrip(SubSeq(s, 1, Len(s) - 1))
    ELSE s

strip(s) == rstrip(lstrip(s))

startswith(s, p) == Len(s) >= Len(p) /\ SubSeq(s, 1, Len(p)) = p

lower(c) ==
    LET hits == {i \in 1..Len(UpperAlphabet) : UpperAlphabet[i] = c}
    IN  IF hits # {} THEN LowerAlphabet[CHOOSE i \in hits : TRUE] ELSE c

\* sep.join(xs)
RECURSIVE join(_, _)
join(sep, xs) ==
    IF xs = <<>> THEN <<>>
    ELSE IF Len(xs) = 1 THEN xs[1]
    ELSE xs[1] \o sep \o join(sep, Tail(xs))

\* str.splitlines(): "\n", "\r" and "\r\n" end a line; no empty last line
RECURSIVE SplitLoop(_, _, _)
SplitLoop(s, cur, acc) ==
    IF s = <<>> THEN (IF cur = <<>> THEN acc ELSE Append(acc, cur))
    ELSE IF Head(s) = "\r" /\ Len(s) >= 2 /\ s[2] = "\n"
         THEN SplitLoop(Tail(Tail(s)), <<>>, Append(acc, cur))
    ELSE IF Head(s) \in {"\n", "\r"}
         THEN SplitLoop(Tail(s), <<>>, Append(acc, cur))
    ELSE SplitLoop(Tail(s), Append(cur, Head(s)), acc)

splitlines(s) == SplitLoop(s, <<>>, <<>>)

\* ------------------------------------------------------------ int() and []

\* the outcome of an expression that may raise
Raised == [ok |-> FALSE]

Value(v) == [ok |-> TRUE, v |-> v]

IsDigit(c) == \E d \in 1..Len(Digits) : Digits[d] = c

DigitValue(c) == (CHOOSE d \in 1..Len(Digits) : Digits[d] = c) - 1

\* digits, single underscores allowed between digits
ValidIntBody(s) ==
    /\ s # <<>>
    /\ IsDigit(s[1])
    /\ IsDigit(s[Len(s)])
    /\ \A i \in 1..Len(s) : IsDigit(s[i]) \/ (s[i] = "_" /\ s[i - 1] # "_")

RECURSIVE DigitsValue(_, _)
DigitsValue(s, acc) ==
    IF s = <<>> THEN acc
    ELSE IF Head(s) = "_" THEN DigitsValue(Tail(s), acc)
    ELSE DigitsValue(Tail(s), acc * 10 + DigitValue(Head(s)))

\* int(str): surrounding whitespace and one sign are accepted
IntOfStr(s) ==
    LET b == strip(s)
        signed == b # <<>> /\ b[1] \in {"+", "-"}
        body == IF signed THEN Tail(b) ELSE b
    IN  IF ValidIntBody(body)
        THEN Value(IF signed /\ b[1] = "-"
                   THEN 0 - DigitsValue(body, 0)
                   ELSE DigitsValue(body, 0))
        ELSE Raised

\* int(v): ValueError or TypeError is Raised
PyInt(v) ==
    CASE v.t = "int" -> Value(v.n)
      [] v.t = "bool" -> Value(IF v.b THEN 1 ELSE 0)
      [] v.t = "float" -> Value(v.whole)
      [] v.t = "str" -> IntOfStr(v.s)
      [] OTHER -> Raised

\* v[i] for a literal index i >= 0: IndexError, KeyError or TypeError is Raised
Subscript(v, i) ==
    CASE v.t = "list" -> IF i < Len(v.xs) THEN Value(v.xs[i + 1]) ELSE Raised
      [] v.t = "str" -> IF i < Len(v.s) THEN Value(JStr(<<v.s[i + 1]>>)) ELSE Raised
      [] OTHER -> Raised

\* dict.get(key), None when the key is absent
DictGet(d, key) ==
    IF \E i \in 1..Len(d.kv) : d.kv[i][1] = key
    THEN d.kv[CHOOSE i \in 1..Len(d.kv) : d.kv[i][1] = key][2]
    ELSE None

\* ------------------------------------------------------------ get_csrf_token

\* ends of the lazy group (.+?) opened at position b: a quote after at least
\* one character, none of the characters before it a newline
GroupEnds(html, b) ==
    {e \in (b + 1)..Len(html) :
        html[e] = "\"" /\ \A k \in b..(e - 1) : html[k] # "\n"}

\* positions where name="csrf_token" value="(.+?)" matches
MatchStarts(html) ==
    {i \in 1..Len(html) :
        /\ startswith(SubSeq(html, i, Len(html)), CsrfPattern)
        /\ GroupEnds(html, i + Len(CsrfPattern)) # {}}

Min(S) == CHOOSE x \in S : \A y \in S : x <= y

\* re.search takes the leftmost match, the lazy group its shortest extent
get_csrf_token(html) ==
    IF MatchStarts(html) = {} THEN None
    ELSE LET b == Min(MatchStarts(html)) + Len(CsrfPattern)
             e == Min(GroupEnds(html, b))
         IN  JStr(SubSeq(html, b, e - 1))

\* ------------------------------------------------------------ analyze_result

\* NodeCheck with the upper bound of the status inclusive
NodeCheckInclusive(res) ==
    IF ~Truthy(res) \/ res.t # "list" \/ ~Truthy(res.xs[1]) THEN FALSE
    ELSE LET check == res.xs[1]
             c0 == Subscript(check, 0)
             success_flag == IF c0.ok THEN PyInt(c0.v) ELSE Raised
             c3 == Subscript(check, 3)
             status_code ==
                 IF ~success_flag.ok \/ ~c3.ok THEN Raised
                 ELSE IF c3.v.t = "none" THEN Value(None)
                 ELSE IF PyInt(c3.v).ok THEN Value(JInt(PyInt(c3.v).v))
                 ELSE Raised
         IN  IF ~status_code.ok THEN FALSE
             ELSE /\ success_flag.v = 1
                  /\ Truthy(status_code.v)
                  /\ 200 <= status_code.v.n
                  /\ status_code.v.n <= 400

\* the loop body for one node: TRUE when the node is appended
NodeCheck(res) ==
    IF ~Truthy(res) \/ res.t # "list" \/ ~Truthy(res.xs[1]) THEN FALSE
    ELSE LET check == res.xs[1]
             c0 == Subscript(check, 0)
             success_flag == IF c0.ok THEN PyInt(c0.v) ELSE Raised
             c3 == Subscript(check, 3)
             status_code ==
                 IF ~success_flag.ok \/ ~c3.ok THEN Raised
                 ELSE IF c3.v.t = "none" THEN Value(None)
                 ELSE IF PyInt(c3.v).ok THEN Value(JInt(PyInt(c3.v).v))
                 ELSE Raised
         IN  IF ~status_code.ok THEN FALSE
             ELSE /\ success_flag.v = 1
                  /\ Truthy(status_code.v)
                  /\ 200 <= status_code.v.n
                  /\ status_code.v.n < 400

RECURSIVE AnalyzeLoop(_, _)
AnalyzeLoop(items, active_nodes) ==
    IF items = <<>> THEN active_nodes
    ELSE AnalyzeLoop(Tail(items),
                     IF NodeCheck(items[1][2])
                     THEN Append(active_nodes, items[1][1])
                     ELSE active_nodes)

\* result.items() raises AttributeError unless result is a dict
AnalyzeRaises(result) == result.t # "dict"

analyze_result(result) == AnalyzeLoop(result.kv, <<>>)

\* ------------------------------------------------------------ map_node_to_country

\* Prefix without lower()
PrefixCaseSensitive(node_id) ==
    [i \in 1..(IF Len(node_id) < 2 THEN Len(node_id) ELSE 2) |-> node_id[i]]

\* node_id[:2].lower()
Prefix(node_id) ==
    [i \in 1..(IF Len(node_id) < 2 THEN Len(node_id) ELSE 2) |-> lower(node_id[i])]

\* mapping.get(prefix, node_id)
map_node_to_country(node_id) ==
    LET prefix == Prefix(node_id)
        hits == {i \in 1..Len(mapping) : mapping[i][1] = prefix}
    IN  IF hits # {} THEN mapping[CHOOSE i \in hits : TRUE][2] ELSE node_id

\* ------------------------------------------------------------ check_with_scraping

\* a probe reply is a status code or a raised exception
ProbeReply(status_code) == [exc |-> FALSE, status_code |-> status_code]

ProbeError == [exc |-> TRUE, status_code |-> 0]

\* check_with_scraping with the lower bound exclusive
check_with_scraping_exclusive(reply) ==
    IF reply.exc THEN FALSE
    ELSE 200 < reply.status_code /\ reply.status_code < 400

\* the active flag of the returned pair
check_with_scraping(reply) ==
    IF reply.exc THEN FALSE
    ELSE 200 <= reply.status_code /\ reply.status_code < 400

\* ------------------------------------------------------------ DataFrame.to_csv

\* csv.QUOTE_MINIMAL: a field holding the delimiter, the quote character
\* or a character of the line terminator is quoted
NeedsQuote(f) == \E i \in 1..Len(f) : f[i] \in {",", "\"", "\n"}

\* doublequote=True
RECURSIVE DoubleQuotes(_)
DoubleQuotes(f) ==
    IF f = <<>> THEN <<>>
    ELSE (IF Head(f) = "\"" THEN <<"\"", "\"">> ELSE <<Head(f)>>)
         \o DoubleQuotes(Tail(f))

\* CsvField that never quotes
CsvFieldUnquoted(f) == f

CsvField(f) ==
    IF NeedsQuote(f) THEN <<"\"">> \o DoubleQuotes(f) \o <<"\"">> ELSE f

CsvLine(fields) ==
    join(<<",">>, [i \in 1..Len(fields) |-> CsvField(fields[i])]) \o <<"\n">>

RECURSIVE CsvRows(_)
CsvRows(rows) ==
    IF rows = <<>> THEN <<>>
    ELSE CsvLine(<<rows[1].URL, rows[1].Status, rows[1].Other>>)
         \o CsvRows(Tail(rows))

\* df.to_csv(index=False): the header line, then one line per row
to_csv(rows) == CsvLine(<<ColURL, ColStatus, ColOther>>) \o CsvRows(rows)
\* a line of whitespace only
LineBlank ==
    <<" ", "\t">>

\* a URL with surrounding spaces
LinePlain ==
    <<" ", " ", "u", "1", " ">>

\* a URL holding a comma and a quote, the line ending in \r
LineQuoted ==
    <<"a", ",", "\"", "b", "\r">>

\* '{'
OpenBrace ==
    <<"{">>

\* ------------------------------------------------------------ inputs

\* the most lines typed into the text area
MaxLines == 2

\* the URL lines a user types, by position
UrlLines == <<LinePlain, LineQuoted>>

\* line i of the text area: blank when i is in blanks, else a URL line
LineAt(i, blanks) ==
    IF i \in blanks THEN LineBlank
    ELSE UrlLines[((i - 1) % Len(UrlLines)) + 1]

\* what the text area can hold: up to MaxLines lines joined by "\n"
Texts ==
    UNION {{join(<<"\n">>, [i \in 1..n |-> LineAt(i, blanks)]) :
               blanks \in SUBSET (1..n)} : n \in 0..MaxLines}

\* what requests.get(url) of the direct probe can give
ProbeReplies ==
    <<ProbeReply(200), ProbeReply(399), ProbeReply(400), ProbeError>>

\* what a check-http request can give
SubmitReplies ==
    <<SubJson, SubJsonIndented, SubJsonNoId, SubJsonNullId, SubBadJson,
      SubHtmlToken, SubHtmlNoToken, SubHtmlEmptyValue, SubHtmlTokenNewline,
      SubEmpty, TransportError>>

\* what a check-result request can give
PollReplies ==
    <<PollEmpty, PollBlank, PollHtml, PollEmptyDict, PollNull, PollList,
      PollSpecExample, PollOnlyIndia, PollNoneActive, PollMixed,
      PollEdgeTuples, PollNewlineId, TransportError>>

\* range(10): the attempts of the poll loop
MaxPolls == 10

\* ------------------------------------------------------------ state

VARIABLES
    urls_text,        \* the text area
    pc,               \* where main() is: idle, warned, probe, submit,
                      \* resubmit, poll, done, crashed
    urls,             \* the stripped non-empty lines
    idx,              \* position in urls of the URL being checked
    results,          \* the rows appended so far
    csv,              \* the exported CSV text
    calls,            \* the requests and sleeps made for the current URL
    probe,            \* check_with_scraping: the reply, until check_url starts
    response,         \* check_url: the last check-http reply
    token,            \* check_url: the extracted CSRF token
    request_id,       \* check_url: the ticket
    attempt,          \* check_url: passes of the poll loop made
    result_response,  \* check_url: the last check-result reply
    all_empty,        \* every check-result reply so far had a blank body
    bulk_result,      \* main: what check_url returned
    active_nodes      \* main: what analyze_result returned

vars ==
    <<urls_text, pc, urls, idx, results, csv, calls, probe, response, token,
      request_id, attempt, result_response, all_empty, bulk_result,
      active_nodes>>

\* one entry of calls: a request with its target, CSRF parameter and
\* timeout, or a sleep with its length
\* requests.get(url, timeout=5) of the direct probe
ProbeTimeout == 5

\* session.get(..., timeout=10) of check-http and check-result
RequestTimeout == 10

\* time.sleep(2)
SleepSeconds == 2

Call(kind, target, tok) ==
    [kind |-> kind, target |-> target, token |-> tok,
     seconds |-> CASE kind = "probe" -> ProbeTimeout
                   [] kind = "sleep" -> SleepSeconds
                   [] OTHER -> RequestTimeout]

NoProbe == [exc |-> FALSE, status_code |-> 0]

NoReply == [exc |-> FALSE, text |-> <<>>, json |-> [t |-> "unset"]]

Init ==
    /\ urls_text \in Texts
    /\ pc = "idle"
    /\ urls = <<>>
    /\ idx = 0
    /\ results = <<>>
    /\ csv = <<>>
    /\ calls = <<>>
    /\ probe = NoProbe
    /\ response = NoReply
    /\ token = None
    /\ request_id = None
    /\ attempt = 0
    /\ result_response = NoReply
    /\ all_empty = TRUE
    /\ bulk_result = None
    /\ active_nodes = <<>>

\* ------------------------------------------------------------ main

\* [u.strip() for u in urls_text.splitlines() if u.strip()]
StrippedLines(text) ==
    LET ls == splitlines(text)
        kept == SelectSeq(ls, LAMBDA u : strip(u) # <<>>)
    IN  [i \in 1..Len(kept) |-> strip(kept[i])]

\* the button: an empty list gives the warning and returns
ClickCheck ==
    /\ pc = "idle"
    /\ urls' = StrippedLines(urls_text)
    /\ IF urls' = <<>> THEN pc' = "warned" /\ idx' = idx
                       ELSE pc' = "probe" /\ idx' = 1
    /\ UNCHANGED <<urls_text, results, csv, calls, probe, response, token,
                   request_id, attempt, result_response, all_empty,
                   bulk_result, active_nodes>>

\* AppendRow putting the new row first
AppendRowFirst(status, other) ==
    LET row == [URL |-> urls[idx], Status |-> status, Other |-> other]
    IN  /\ results' = <<row>> \o results
        /\ idx' = idx + 1
        /\ IF idx = Len(urls)
           THEN pc' = "done" /\ csv' = to_csv(results')
           ELSE pc' = "probe" /\ csv' = csv

\* results.append(row); after the last URL the table is exported
AppendRow(status, other) ==
    LET row == [URL |-> urls[idx], Status |-> status, Other |-> other]
    IN  /\ results' = Append(results, row)
        /\ idx' = idx + 1
        /\ IF idx = Len(urls)
           THEN pc' = "done" /\ csv' = to_csv(results')
           ELSE pc' = "probe" /\ csv' = csv

\* FilteredCountries without the India filter
FilteredCountriesNoFilter(nodes) ==
    [i \in 1..Len(nodes) |-> map_node_to_country(nodes[i])]

\* FilteredCountries that also drops the ids the table does not know
FilteredCountriesKnownOnly(nodes) ==
    SelectSeq([i \in 1..Len(nodes) |-> map_node_to_country(nodes[i])],
              LAMBDA c : c # India /\ \E i \in 1..Len(mapping) : mapping[i][2] = c)

\* [c for c in [map_node_to_country(n) for n in nodes] if c != "India"]
FilteredCountries(nodes) ==
    SelectSeq([i \in 1..Len(nodes) |-> map_node_to_country(nodes[i])],
              LAMBDA c : c # India)

\* main's handling of what check_url returned (lines 143-164)
Classify(value) ==
    /\ bulk_result' = value
    /\ IF ~Truthy(value)
       THEN /\ active_nodes' = <<>>
            /\ AppendRow(ErrorRetrieving, <<>>)
       ELSE IF AnalyzeRaises(value)
       THEN /\ pc' = "crashed"
            /\ UNCHANGED <<active_nodes, results, idx, csv>>
       ELSE LET nodes == analyze_result(value)
                filtered_countries == FilteredCountries(nodes)
            IN  /\ active_nodes' = nodes
                /\ IF nodes = <<>> THEN AppendRow(Inactive, <<>>)
                   ELSE IF filtered_countries = <<>>
                        THEN AppendRow(InactiveNoNonIndia, <<>>)
                   ELSE AppendRow(ActiveOther,
                                  join(CommaSpace, filtered_countries))

\* the direct probe of the next URL
Probe ==
    /\ pc = "probe"
    /\ \E i \in 1..Len(ProbeReplies) :
         /\ probe' = ProbeReplies[i]
         /\ IF check_with_scraping(probe')
            THEN AppendRow(ActiveDirect, <<>>)
            ELSE pc' = "submit" /\ UNCHANGED <<results, idx, csv>>
    /\ calls' = <<Call("probe", urls[idx], <<>>)>>
    /\ response' = NoReply
    /\ token' = None
    /\ request_id' = None
    /\ attempt' = 0
    /\ result_response' = NoReply
    /\ all_empty' = TRUE
    /\ bulk_result' = None
    /\ active_nodes' = <<>>
    /\ UNCHANGED <<urls_text, urls>>

\* ------------------------------------------------------------ check_url

\* response.text.lstrip().startswith("{")
IsJsonText(text) == startswith(lstrip(text), OpenBrace)

\* SubmitNext without the "if not token" return
SubmitNextNoTokenCheck(reply) ==
    IF reply.exc THEN "return"
    ELSE IF ~IsJsonText(reply.text) THEN "resubmit"
    ELSE "ticket"

\* where check_url goes after the first check-http reply (lines 19-26)
SubmitNext(reply) ==
    IF reply.exc THEN "return"
    ELSE IF ~IsJsonText(reply.text)
         THEN (IF ~Truthy(get_csrf_token(reply.text)) THEN "return"
               ELSE "resubmit")
    ELSE "ticket"

\* ResubmitNext submitting again while the reply is HTML with a token
ResubmitNextRetries(reply) ==
    IF reply.exc THEN "return"
    ELSE IF ~IsJsonText(reply.text)
         THEN (IF ~Truthy(get_csrf_token(reply.text)) THEN "return"
               ELSE "resubmit")
    ELSE "ticket"

\* where check_url goes after the second check-http reply (lines 27-30)
ResubmitNext(reply) ==
    IF reply.exc THEN "return"
    ELSE IF ~IsJsonText(reply.text) THEN "return"
    ELSE "ticket"

\* PollNext without the blank-body test: json() of a blank body raises
PollNextBlankIsInvalid(reply) ==
    IF reply.exc THEN "return"
    ELSE IF reply.json.t = "invalid" THEN "return"
    ELSE IF Truthy(reply.json) THEN "result"
    ELSE "continue"

\* PollNext going on to the next attempt after a truthy result
PollNextIgnoresResult(reply) ==
    IF reply.exc THEN "return"
    ELSE IF strip(reply.text) = <<>> THEN "continue"
    ELSE IF reply.json.t = "invalid" THEN "return"
    ELSE "continue"

\* PollNext going on to the next attempt after a body that is not JSON
PollNextInvalidContinues(reply) ==
    IF reply.exc THEN "return"
    ELSE IF strip(reply.text) = <<>> THEN "continue"
    ELSE IF reply.json.t = "invalid" THEN "continue"
    ELSE IF Truthy(reply.json) THEN "result"
    ELSE "continue"

\* PollNext returning None on a falsy parsed value
PollNextFalsyReturns(reply) ==
    IF reply.exc THEN "return"
    ELSE IF strip(reply.text) = <<>> THEN "continue"
    ELSE IF reply.json.t = "invalid" THEN "return"
    ELSE IF Truthy(reply.json) THEN "result"
    ELSE "return"

\* PollNext with the request's exception caught inside the loop
PollNextRetriesOnError(reply) ==
    IF reply.exc THEN "continue"
    ELSE IF strip(reply.text) = <<>> THEN "continue"
    ELSE IF reply.json.t = "invalid" THEN "return"
    ELSE IF Truthy(reply.json) THEN "result"
    ELSE "continue"

\* where check_url goes after a check-result reply (lines 40-49)
PollNext(reply) ==
    IF reply.exc THEN "return"
    ELSE IF strip(reply.text) = <<>> THEN "continue"
    ELSE IF reply.json.t = "invalid" THEN "return"
    ELSE IF Truthy(reply.json) THEN "result"
    ELSE "continue"

\* TakeTicket without the "if not request_id" return: the poll URL is then
\* formatted from whatever data.get gave
TakeTicketUnchecked(reply) ==
    LET data == reply.json
        id == IF data.t = "dict" THEN DictGet(data, request_id_key) ELSE None
    IN  IF data.t # "dict"
        THEN /\ Classify(None)
             /\ response' = reply
             /\ UNCHANGED request_id
        ELSE /\ request_id' = IF id.t = "str" THEN id
                              ELSE JStr(<<"N", "o", "n", "e">>)
             /\ response' = reply
             /\ pc' = "poll"
             /\ UNCHANGED <<results, idx, csv, bulk_result, active_nodes>>

\* response.json(), data.get("request_id"), and entering the poll loop
TakeTicket(reply) ==
    LET data == reply.json
        id == IF data.t = "dict" THEN DictGet(data, request_id_key) ELSE None
    IN  IF data.t # "dict" \/ ~Truthy(id)
        THEN /\ Classify(None)
             /\ response' = reply
             /\ UNCHANGED request_id
        ELSE /\ request_id' = id
             /\ response' = reply
             /\ pc' = "poll"
             /\ UNCHANGED <<results, idx, csv, bulk_result, active_nodes>>

\* what follows a check-http reply
AfterSubmit(reply, next) ==
    IF next = "ticket" THEN TakeTicket(reply)
    ELSE /\ response' = reply
         /\ UNCHANGED request_id
         /\ IF next = "return" THEN Classify(None)
            ELSE /\ pc' = next
                 /\ UNCHANGED <<results, idx, csv, bulk_result, active_nodes>>

\* the first check-http request
Submit ==
    /\ pc = "submit"
    /\ calls' = Append(calls, Call("submit", urls[idx], <<>>))
    /\ \E i \in 1..Len(SubmitReplies) :
         LET reply == SubmitReplies[i] IN
         /\ token' = IF ~reply.exc /\ ~IsJsonText(reply.text)
                     THEN get_csrf_token(reply.text)
                     ELSE token
         /\ AfterSubmit(reply, SubmitNext(reply))
    /\ probe' = NoProbe
    /\ UNCHANGED <<urls_text, urls, attempt, result_response, all_empty>>

\* the second check-http request, with the token
Resubmit ==
    /\ pc = "resubmit"
    /\ calls' = Append(calls, Call("submit", urls[idx],
                                   IF token.t = "str" THEN token.s ELSE <<>>))
    /\ \E i \in 1..Len(SubmitReplies) :
         AfterSubmit(SubmitReplies[i], ResubmitNext(SubmitReplies[i]))
    /\ UNCHANGED <<urls_text, urls, probe, token, attempt, result_response,
                   all_empty>>

\* Poll making the request first and sleeping after it
PollSleepsAfter ==
    /\ pc = "poll"
    /\ calls' = calls \o <<Call("poll", request_id.s, <<>>),
                           Call("sleep", <<>>, <<>>)>>
    /\ attempt' = attempt + 1
    /\ \E i \in 1..Len(PollReplies) :
         LET reply == PollReplies[i]
             next == PollNext(reply)
         IN
         /\ result_response' = reply
         /\ all_empty' = (all_empty /\ ~reply.exc /\ strip(reply.text) = <<>>)
         /\ IF next = "result" THEN Classify(reply.json)
            ELSE IF next = "return" \/ attempt' = MaxPolls THEN Classify(None)
            ELSE UNCHANGED <<pc, results, idx, csv, bulk_result, active_nodes>>
    /\ UNCHANGED <<urls_text, urls, probe, response, token, request_id>>

\* one pass of the poll loop: sleep, then the check-result request
Poll ==
    /\ pc = "poll"
    /\ calls' = calls \o <<Call("sleep", <<>>, <<>>),
                           Call("poll", request_id.s, <<>>)>>
    /\ attempt' = attempt + 1
    /\ \E i \in 1..Len(PollReplies) :
         LET reply == PollReplies[i]
             next == PollNext(reply)
         IN
         /\ result_response' = reply
         /\ all_empty' = (all_empty /\ ~reply.exc /\ strip(reply.text) = <<>>)
         /\ IF next = "result" THEN Classify(reply.json)
            ELSE IF next = "return" \/ attempt' = MaxPolls THEN Classify(None)
            ELSE UNCHANGED <<pc, results, idx, csv, bulk_result, active_nodes>>
    /\ UNCHANGED <<urls_text, urls, probe, response, token, request_id>>

Next == ClickCheck \/ Probe \/ Submit \/ Resubmit \/ Poll

Spec == Init /\ [][Next]_vars

\* main is sequential and every request returns or raises within its
\* timeout: the step that is due is taken
FairSpec == Spec /\ WF_vars(Next)

\* ------------------------------------------------------------ node ids

\* the longest node id of a one-node result
MaxIdLen == 3

\* the characters of those node ids
NodeChars == {"i", "I", "n", "N", "u", "s", "S", "1"}

\* the upper-case form of a lower-case letter
Capital(c) ==
    UpperAlphabet[CHOOSE i \in 1..Len(LowerAlphabet) : LowerAlphabet[i] = c]

\* a table key in its four casings, bare and followed by a digit
KeyedIds ==
    UNION {{<<a, b>> \o tail :
               a \in {mapping[k][1][1], Capital(mapping[k][1][1])},
               b \in {mapping[k][1][2], Capital(mapping[k][1][2])},
               tail \in {<<>>, <<"1">>}} : k \in 1..Len(mapping)}

\* every node id of at most MaxIdLen characters, and the keyed ones
NodeIds ==
    UNION {[1..len -> NodeChars] : len \in 0..MaxIdLen} \cup KeyedIds

\* what check_url returns when one node, node_id, answered with status 200
OneNodeResult(node_id) ==
    JDict(<< <<node_id,
               JList(<<JList(<<JInt(1), JFloat(0, 1), JStr(<<"O", "K">>),
                               JInt(200), JStr(<<"i", "p">>)>>)>>)>> >>)

\* main at line 143 for its only URL, check_url having returned such a result
MapInit ==
    /\ urls_text = <<"u", "1">>
    /\ pc = "classify"
    /\ urls = <<urls_text>>
    /\ idx = 1
    /\ results = <<>>
    /\ csv = <<>>
    /\ calls = <<>>
    /\ probe = NoProbe
    /\ response = NoReply
    /\ token = None
    /\ request_id = None
    /\ attempt = 0
    /\ result_response = NoReply
    /\ all_empty = TRUE
    /\ bulk_result \in {OneNodeResult(node_id) : node_id \in NodeIds}
    /\ active_nodes = <<>>

\* lines 143-171: analyze_result, map_node_to_country, the filter, the row
ClassifyResult ==
    /\ pc = "classify"
    /\ Classify(bulk_result)
    /\ UNCHANGED <<urls_text, urls, calls, probe, response, token, request_id,
                   attempt, result_response, all_empty>>

MapNext == ClassifyResult

MapSpec == MapInit /\ [][MapNext]_vars

\* ------------------------------------------------------------ properties

\* a row was appended by the last step: calls, the replies and the locals
\* are those of the URL of the last row
RowDone == pc \in {"probe", "done"} /\ results # <<>>

LastRow == results[Len(results)]

CallsOf(kind) == SelectSeq(calls, LAMBDA c : c.kind = kind)

SubmitCalls == Len(CallsOf("submit"))

PollCalls == Len(CallsOf("poll"))

\* check_url returned None and main wrote the error row
ReturnedNone ==
    /\ RowDone
    /\ bulk_result.t = "none"
    /\ LastRow.Status = ErrorRetrieving
    /\ LastRow.Other = <<>>

\* C1: a direct probe answered with a status in [200,400) gives the row
\* "Active (Direct)" for that URL, and no check-http or check-result request
\* is made for it.
C1_DirectActiveNoRemote ==
    (~probe.exc /\ 200 <= probe.status_code /\ probe.status_code < 400) =>
        /\ RowDone
        /\ LastRow.Status = ActiveDirect
        /\ LastRow.URL = urls[Len(results)]
        /\ LastRow.Other = <<>>
        /\ calls = <<Call("probe", LastRow.URL, <<>>)>>

C1_Witness ==
    /\ ~probe.exc /\ probe.status_code = 399
    /\ Len(results) = 2
    /\ LastRow.Status = ActiveDirect
    /\ results[1].Status # ActiveDirect

\* C2: with a ticket obtained and every check-result reply blank, polling
\* goes on while fewer than 10 requests were made, and check_url returns
\* None after exactly 10 of them: the row is "Error retrieving API data".
C2_EmptyPollsTimeOutAfterTen ==
    (Truthy(request_id) /\ all_empty) =>
        /\ PollCalls = attempt
        /\ PollCalls < MaxPolls => pc = "poll"
        /\ PollCalls >= MaxPolls => (PollCalls = 10 /\ ReturnedNone)

C2_Witness ==
    /\ Truthy(request_id) /\ all_empty
    /\ PollCalls = 10
    /\ ReturnedNone
    /\ result_response = PollEmpty

\* the first check-http reply that SubmitReplies holds for an HTML body
IsHtmlReply(r) ==
    /\ ~r.exc
    /\ r.json.t # "unset"
    /\ \A i \in 1..Len(r.text) :
          r.text[i] = "{" => \E k \in 1..(i - 1) : r.text[k] \notin Whitespace

\* the body holds name="csrf_token" value=" followed on the same line by
\* at least one character and a closing quote
HasCsrfField(text) ==
    \E i \in 1..Len(text) : \E e \in 1..Len(text) :
        /\ \A k \in 1..Len(CsrfPattern) :
              i + k - 1 <= Len(text) /\ text[i + k - 1] = CsrfPattern[k]
        /\ e > i + Len(CsrfPattern)
        /\ text[e] = "\""
        /\ \A k \in (i + Len(CsrfPattern))..(e - 1) : text[k] # "\n"

\* C3: at most two check-http requests are made for a URL; the second is
\* made only after an HTML first reply that holds a CSRF token, and carries
\* that token; an HTML second reply ends check_url with None after exactly
\* two check-http requests and no check-result request.
C3_AtMostOneResubmission ==
    /\ SubmitCalls <= 2
    /\ pc = "resubmit" =>
          /\ SubmitCalls = 1
          /\ IsHtmlReply(response) /\ HasCsrfField(response.text)
          /\ Truthy(token)
    /\ SubmitCalls = 2 =>
          /\ CallsOf("submit")[1].token = <<>>
          /\ CallsOf("submit")[2].token = token.s
          /\ token.s # <<>>
    /\ (SubmitCalls = 2 /\ IsHtmlReply(response)) =>
          /\ ReturnedNone
          /\ PollCalls = 0
          /\ Len(calls) = 3

C3_Witness ==
    /\ SubmitCalls = 2
    /\ IsHtmlReply(response)
    /\ ReturnedNone
    /\ PollCalls = 0

\* C4: an HTML first reply without a CSRF token field ends check_url with
\* None after that one request: no resubmission, no poll, and the row is
\* "Error retrieving API data".
C4_NoTokenNoSecondRequest ==
    (SubmitCalls = 1 /\ IsHtmlReply(response) /\ ~HasCsrfField(response.text)) =>
        /\ ReturnedNone
        /\ calls = <<Call("probe", LastRow.URL, <<>>),
                     Call("submit", LastRow.URL, <<>>)>>

C4_Witness ==
    /\ SubmitCalls = 1
    /\ response = SubHtmlEmptyValue
    /\ ReturnedNone
    /\ Len(calls) = 2

\* C5: whatever the probe, check-http and check-result requests give, no
\* exception leaves the checking functions: main never stops inside the
\* loop, the failing URL gets its row and the later URLs are processed.
C5_NoExceptionEscapes == pc # "crashed"

\* the five outcome labels
OutcomeLabels ==
    {ActiveDirect, ActiveOther, InactiveNoNonIndia, Inactive, ErrorRetrieving}

\* the positions of text where a line starts, "\n" ending a line
LineStarts(text) ==
    {s \in 1..Len(text) : s = 1 \/ text[s - 1] = "\n"}

\* the line of text starting at s, without its leading and trailing whitespace
TrimmedLineAt(text, s) ==
    LET stop == IF \E j \in s..Len(text) : text[j] = "\n"
                THEN CHOOSE j \in s..Len(text) :
                        text[j] = "\n" /\ \A k \in s..(j - 1) : text[k] # "\n"
                ELSE Len(text) + 1
        ink == {k \in s..(stop - 1) : text[k] \notin Whitespace}
    IN  IF ink = {} THEN <<>>
        ELSE SubSeq(text, CHOOSE a \in ink : \A k \in ink : a <= k,
                          CHOOSE b \in ink : \A k \in ink : b >= k)

\* the non-empty trimmed lines of text, in order
NonEmptyLines(text) ==
    LET starts == {s \in LineStarts(text) : TrimmedLineAt(text, s) # <<>>}
        nth == CHOOSE f \in [1..Cardinality(starts) -> starts] :
                  \A i, j \in 1..Cardinality(starts) : i < j => f[i] < f[j]
    IN  [i \in 1..Cardinality(starts) |-> TrimmedLineAt(text, nth[i])]

C6_RowsMatchLines ==
    /\ pc # "idle" => urls = NonEmptyLines(urls_text)
    /\ Len(results) <= Len(urls)
    /\ \A i \in 1..Len(results) :
          results[i].URL = urls[i] /\ results[i].Status \in OutcomeLabels
    /\ pc = "done" => Len(results) = Len(urls)
    /\ pc = "warned" => urls = <<>> /\ results = <<>>

C6_AppendOnly ==
    /\ Len(results') >= Len(results)
    /\ SubSeq(results', 1, Len(results)) = results

\* C6: the rows follow the non-empty trimmed input lines in order, row i
\* carrying URL i and one of the five labels; a completed batch has one row
\* per such line; a step only ever appends to the list.
C6_OneRowPerLineInOrder == [](C6_RowsMatchLines) /\ [][C6_AppendOnly]_vars

C6_Witness ==
    /\ pc = "done"
    /\ Len(results) = 2
    /\ results[1].URL # results[2].URL
    /\ results[1].Status # results[2].Status
    /\ Len(urls_text) > Len(results[1].URL) + Len(results[2].URL) + 1

\* check_url returned a mapping and main classified it into the last row
RemoteResult == RowDone /\ bulk_result.t = "dict"

\* the node id's first two characters, lower-cased, are "in"
MapsToIndia(n) == Len(n) >= 2 /\ n[1] \in {"i", "I"} /\ n[2] \in {"n", "N"}

\* the first result tuple of a node has a flag that int() makes 1 and a
\* non-null status that int() makes a number in [200,400)
ActiveByFirstTuple(res) ==
    /\ res.t = "list"
    /\ res.xs # <<>>
    /\ LET flag == Subscript(res.xs[1], 0)
           status == Subscript(res.xs[1], 3)
       IN  /\ flag.ok /\ status.ok
           /\ PyInt(flag.v).ok /\ PyInt(flag.v).v = 1
           /\ status.v.t # "none"
           /\ PyInt(status.v).ok
           /\ PyInt(status.v).v \in 200..399

\* the ids of the active nodes of a mapping, in mapping order
ExpectedActive(result) ==
    LET keep == SelectSeq(result.kv, LAMBDA p : ActiveByFirstTuple(p[2]))
    IN  [i \in 1..Len(keep) |-> keep[i][1]]

\* C7: a remote result whose active nodes all map to India gives
\* "Inactive (No non-India nodes)"; one with no active node gives "Inactive".
C7_IndiaOnlyIsNotPlainInactive ==
    /\ (RemoteResult /\ active_nodes # <<>>
          /\ \A i \in 1..Len(active_nodes) : MapsToIndia(active_nodes[i])) =>
          (LastRow.Status = InactiveNoNonIndia /\ LastRow.Other = <<>>)
    /\ (RemoteResult /\ ExpectedActive(bulk_result) = <<>>) =>
          (LastRow.Status = Inactive /\ LastRow.Other = <<>>)

C7_Witness ==
    /\ RemoteResult
    /\ Len(results) = 2
    /\ results[1].Status = Inactive
    /\ LastRow.Status = InactiveNoNonIndia
    /\ Len(active_nodes) = 2

\* 'USA'
C8_USA ==
    <<"U", "S", "A">>


\* C8: with an active node that does not map to India the row is
\* "Active (Other Countries)" and lists map_node_to_country(n) for the active
\* nodes n outside India, in result order, one entry each; the active nodes
\* us1.node and in2.node give "USA".
C8_OtherRegionsListed ==
    /\ (RemoteResult /\ \E i \in 1..Len(active_nodes) :
                            ~MapsToIndia(active_nodes[i])) =>
          LET others == SelectSeq(active_nodes, LAMBDA n : ~MapsToIndia(n))
          IN  /\ LastRow.Status = ActiveOther
              /\ LastRow.Other =
                    join(CommaSpace,
                         [i \in 1..Len(others) |-> map_node_to_country(others[i])])
    /\ (RowDone /\ result_response.text = PollSpecExample.text) =>
          (LastRow.Status = ActiveOther /\ LastRow.Other = C8_USA)

C8_Witness ==
    /\ RemoteResult
    /\ result_response.text = PollMixed.text
    /\ LastRow.Status = ActiveOther
    /\ Len(active_nodes) = 5

\* C9: analyze_result returns, in mapping order, exactly the ids of the nodes
\* whose first result tuple has flag 1 and a non-null status in [200,400)
\* (both as int() reads them); every other node is skipped without raising.
C9_ActiveNodesExact ==
    /\ bulk_result.t = "dict" => active_nodes = ExpectedActive(bulk_result)
    /\ pc = "crashed" => bulk_result.t # "dict"

C9_Witness ==
    /\ RemoteResult
    /\ result_response.text = PollEdgeTuples.text
    /\ Len(active_nodes) = 5
    /\ Len(active_nodes) < Len(bulk_result.kv)

\* 'URL,Status,Other Active Countries'
C10_HeaderLine ==
    <<"U", "R", "L", ",", "S", "t", "a", "t", "u", "s", ",", "O", "t", "h", "e", "r", " ", "A",
    "c", "t", "i", "v", "e", " ", "C", "o", "u", "n", "t", "r", "i", "e", "s">>

\* the k-th smallest element of a set of numbers
Nth(S, k) == CHOOSE x \in S : Cardinality({y \in S : y <= x}) = k

\* position i of text lies outside every quoted field
Unquoted(text, i) ==
    Cardinality({k \in 1..(i - 1) : text[k] = "\""}) % 2 = 0

\* a quoted field without its quotes, "" inside it read as one quote
FieldValue(f) ==
    IF Len(f) >= 2 /\ f[1] = "\"" /\ f[Len(f)] = "\""
    THEN LET inner == SubSeq(f, 2, Len(f) - 1)
             kept == {j \in 1..Len(inner) :
                         \/ inner[j] # "\""
                         \/ Cardinality({k \in 1..j : inner[k] = "\""}) % 2 = 1}
         IN  [m \in 1..Cardinality(kept) |-> inner[Nth(kept, m)]]
    ELSE f

\* the pieces of text[lo..hi] between the positions in cuts
Pieces(text, lo, hi, cuts) ==
    LET n == Cardinality(cuts)
    IN  [m \in 1..(n + 1) |->
            SubSeq(text, IF m = 1 THEN lo ELSE Nth(cuts, m - 1) + 1,
                         IF m = n + 1 THEN hi ELSE Nth(cuts, m) - 1)]

\* one record: commas outside quotes separate its fields
ReadRecord(line) ==
    LET commas == {i \in 1..Len(line) : line[i] = "," /\ Unquoted(line, i)}
        parts == Pieces(line, 1, Len(line), commas)
    IN  [m \in 1..Len(parts) |-> FieldValue(parts[m])]

\* a reader of CSV text: a "\n" outside quotes ends a record
ReadCsv(text) ==
    LET ends == {i \in 1..Len(text) : text[i] = "\n" /\ Unquoted(text, i)}
        parts == Pieces(text, 1, Len(text), ends)
    IN  [m \in 1..Cardinality(ends) |-> ReadRecord(parts[m])]

\* the lines of a text, each ended by "\n"
PhysicalLines(text) ==
    LET ends == {i \in 1..Len(text) : text[i] = "\n"}
        parts == Pieces(text, 1, Len(text), ends)
    IN  [m \in 1..Cardinality(ends) |-> parts[m]]

RowFields(row) == <<row.URL, row.Status, row.Other>>

\* the export has one line per row after the header line, and line i+1 read
\* alone gives row i
LinePerRow ==
    LET ls == PhysicalLines(csv)
    IN  /\ Len(ls) = Len(results) + 1
        /\ ls[1] = C10_HeaderLine
        /\ \A i \in 1..Len(results) :
              ReadRecord(ls[i + 1]) = RowFields(results[i])

\* C10 as stated: the export of N rows has exactly N+1 lines, and parsing
\* line i+1 gives back row i.
C10_LinePerRow == pc = "done" => LinePerRow

NoLineBreakInRows ==
    \A i \in 1..Len(results) : \A k \in 1..3 :
        \A j \in 1..Len(RowFields(results[i])[k]) :
            RowFields(results[i])[k][j] # "\n"

\* C10 amended: the export reads back as exactly N+1 records, the header and
\* row i as record i+1; it has N+1 lines, line i+1 holding row i, when no
\* field holds a line break.
C10_RecordPerRow ==
    pc = "done" =>
        /\ ReadCsv(csv) =
              <<ReadRecord(C10_HeaderLine)>>
              \o [i \in 1..Len(results) |-> RowFields(results[i])]
        /\ Len(ReadRecord(C10_HeaderLine)) = 3
        /\ NoLineBreakInRows => LinePerRow

C10_Witness ==
    /\ pc = "done"
    /\ Len(results) = 2
    /\ NoLineBreakInRows
    /\ \E j \in 1..Len(results[2].URL) : results[2].URL[j] = "\""
    /\ \E j \in 1..Len(results[1].Other) : results[1].Other[j] = ","
    /\ results[2].Other = <<>>


\* the reply arrived and its body holds a character that is not whitespace
NonBlankBody(r) ==
    /\ ~r.exc
    /\ \E i \in 1..Len(r.text) : r.text[i] \notin Whitespace

\* a check-result reply has arrived for the current URL
Polled == attempt > 0 /\ PollCalls > 0

LastCall == calls[Len(calls)]

\* C11: the first check-result reply whose body is not blank and parses to
\* a non-empty mapping ends the poll loop: check_url returns that mapping,
\* main classifies it, and the number of check-result requests made is the
\* index (1..10) of that attempt; while the loop goes on no such reply was
\* seen.
C11_FirstResultEndsPolling ==
    /\ pc = "poll" => (PollCalls = attempt /\ attempt < MaxPolls)
    /\ (/\ Polled
        /\ NonBlankBody(result_response)
        /\ result_response.json.t = "dict"
        /\ Truthy(result_response.json)) =>
           /\ RowDone
           /\ bulk_result = result_response.json
           /\ LastRow.Status \in OutcomeLabels \ {ErrorRetrieving, ActiveDirect}
           /\ PollCalls = attempt
           /\ attempt \in 1..10
           /\ LastCall.kind = "poll"

C11_Witness ==
    /\ Polled
    /\ attempt = 3
    /\ result_response = PollSpecExample
    /\ bulk_result = PollSpecExample.json
    /\ RowDone
    /\ PollCalls = 3

\* C12: the first check-result reply whose body is not blank and is not
\* JSON ends check_url with None: that request is the last one made for the
\* URL, whatever the number of attempts left, and the row is "Error
\* retrieving API data".
C12_InvalidJsonAborts ==
    (/\ Polled
     /\ NonBlankBody(result_response)
     /\ result_response.json.t = "invalid") =>
        /\ ReturnedNone
        /\ PollCalls = attempt
        /\ LastCall.kind = "poll"

C12_Witness ==
    /\ Polled
    /\ attempt = 2
    /\ result_response = PollHtml
    /\ ReturnedNone
    /\ PollCalls = 2

\* the reply is a JSON object whose request_id is the truthy value id
CarriesTicket(r, id) ==
    /\ ~r.exc
    /\ r.json.t = "dict"
    /\ \E i \in 1..Len(r.json.kv) :
          /\ r.json.kv[i][1] = request_id_key
          /\ r.json.kv[i][2] = id
          /\ id.t \notin {"none", "invalid"}
          /\ id.t = "str" => id.s # <<>>

\* C13: a check-result request is made, and the poll loop entered, only
\* after the last check-http reply of the URL was a JSON object with a
\* truthy request_id, and every check-result request of the URL is keyed by
\* that value; a JSON object without a truthy request_id gives the row
\* "Error retrieving API data" and no check-result request.
C13_PollsNeedTicket ==
    /\ (pc = "poll" \/ PollCalls > 0) =>
          /\ CarriesTicket(response, request_id)
          /\ SubmitCalls \in {1, 2}
          /\ \A k \in 1..Len(calls) :
                calls[k].kind = "poll" => calls[k].target = request_id.s
    /\ (/\ SubmitCalls > 0
        /\ ~response.exc
        /\ response.json.t = "dict"
        /\ ~\E i \in 1..Len(response.json.kv) :
               CarriesTicket(response, response.json.kv[i][2])) =>
          /\ ReturnedNone
          /\ PollCalls = 0
          /\ LastCall.kind = "submit"

C13_Witness ==
    /\ response = SubJsonNoId
    /\ SubmitCalls = 2
    /\ PollCalls = 0
    /\ ReturnedNone
    /\ Len(results) = 2
    /\ results[1].Status = ActiveOther

\* the last check-http reply of the URL is a failure of the submission:
\* the request raised, the body is HTML without a token field or HTML again
\* after the resubmission, or the body gives no truthy request_id
SubmissionFailed ==
    /\ SubmitCalls > 0
    /\ PollCalls = 0
    /\ response # NoReply
    /\ \/ response.exc
       \/ IsHtmlReply(response)
            /\ (~HasCsrfField(response.text) \/ SubmitCalls = 2)
       \/ /\ ~response.exc
          /\ ~IsHtmlReply(response)
          /\ response.json.t = "dict" =>
                ~\E i \in 1..Len(response.json.kv) :
                    CarriesTicket(response, response.json.kv[i][2])

\* the last check-result reply of the URL is a failure of the poll: the
\* request raised, the body is not JSON, or it is the 10th attempt and the
\* body is blank or parses to a falsy value
PollFailed ==
    /\ Polled
    /\ \/ result_response.exc
       \/ NonBlankBody(result_response) /\ result_response.json.t = "invalid"
       \/ /\ attempt = 10
          /\ ~result_response.exc
          /\ ~NonBlankBody(result_response) \/ ~Truthy(result_response.json)

C14_FailureGivesError ==
    (SubmissionFailed \/ PollFailed) =>
        /\ ReturnedNone
        /\ active_nodes = <<>>
        /\ LastCall.kind = (IF PollFailed THEN "poll" ELSE "submit")
        /\ SubmitCalls <= 2

C14_NoRequestAfterFailure ==
    (SubmissionFailed \/ PollFailed) =>
        \/ calls' = calls
        \/ /\ Len(calls') = 1
           /\ calls'[1].kind = "probe"
           /\ calls'[1].target = urls[Len(results) + 1]

\* C14: a failure of the submission or of the poll (a request that raised,
\* a protocol error, a body that is not JSON, the 10 attempts used up) gives
\* the row "Error retrieving API data" with check_url's None never
\* analysed; the failing request is the last request made for that URL: the
\* next request is the probe of the next URL.
C14_FailureIsErrorAndFinal ==
    [](C14_FailureGivesError) /\ [][C14_NoRequestAfterFailure]_vars

C14_Witness ==
    /\ PollFailed
    /\ result_response = TransportError
    /\ attempt = 4
    /\ ReturnedNone
    /\ pc = "probe"
    /\ Len(results) = 1

\* c and its upper-case form
CaseVariants(c) ==
    {c} \cup {UpperAlphabet[i] : i \in {k \in 1..Len(LowerAlphabet) : LowerAlphabet[k] = c}}

\* the table entries whose key is the lower-cased two-character prefix of n
TableHits(n) ==
    {k \in 1..Len(mapping) :
        /\ Len(n) >= 2
        /\ n[1] \in CaseVariants(mapping[k][1][1])
        /\ n[2] \in CaseVariants(mapping[k][1][2])}

\* the display name of the one entry hit, else n itself
ExpectedCountry(n) ==
    IF TableHits(n) = {} THEN n
    ELSE mapping[CHOOSE k \in TableHits(n) : TRUE][2]

\* the node id of a one-node result
OnlyNode == bulk_result.kv[1][1]

\* C15: map_node_to_country gives the table's name when the first two
\* characters of the node id, lower-cased, are one of the 9 keys, and the
\* node id itself otherwise, whatever follows the prefix; the node is
\* dropped by main's India filter exactly when that prefix is "in".
C15_PrefixDecidesCountry ==
    (pc = "done" /\ bulk_result.t = "dict" /\ Len(bulk_result.kv) = 1) =>
        /\ Len(mapping) = 9
        /\ Cardinality(TableHits(OnlyNode)) <= 1
        /\ active_nodes = <<OnlyNode>>
        /\ map_node_to_country(OnlyNode) = ExpectedCountry(OnlyNode)
        /\ MapsToIndia(OnlyNode) <=>
              (LastRow.Status = InactiveNoNonIndia /\ LastRow.Other = <<>>)
        /\ ~MapsToIndia(OnlyNode) <=>
              (LastRow.Status = ActiveOther
                  /\ LastRow.Other = ExpectedCountry(OnlyNode))

C15_Witness ==
    /\ pc = "done"
    /\ OnlyNode = <<"I", "n", "1">>
    /\ LastRow.Status = InactiveNoNonIndia

\* the seconds slept in a sequence of calls
RECURSIVE SleptIn(_)
SleptIn(cs) ==
    IF cs = <<>> THEN 0
    ELSE (IF cs[1].kind = "sleep" THEN cs[1].seconds ELSE 0) + SleptIn(Tail(cs))

\* C16: every check-result request comes directly after one sleep of 2
\* time units and every sleep directly before a check-result request, so
\* the sleeps of a URL are as many as its check-result requests and add up
\* to twice their number, at most 20.
C16_SleepBeforeEachPoll ==
    /\ \A k \in 1..Len(calls) :
          calls[k].kind = "poll" =>
              /\ k > 2
              /\ calls[k - 1].kind = "sleep"
              /\ calls[k - 1].seconds = 2
              /\ calls[k - 2].kind \in {"submit", "poll"}
    /\ \A k \in 1..Len(calls) :
          calls[k].kind = "sleep" =>
              k < Len(calls) /\ calls[k + 1].kind = "poll"
    /\ Len(CallsOf("sleep")) = PollCalls
    /\ SleptIn(calls) = 2 * PollCalls
    /\ SleptIn(calls) <= 20

C16_Witness ==
    /\ PollCalls = 10
    /\ Len(CallsOf("sleep")) = 10
    /\ SleptIn(calls) = 20
    /\ LastCall.kind = "poll"
    /\ RowDone

\* the last check-result reply has a body that is not blank and parses to
\* a falsy JSON value
FalsyResult ==
    /\ Polled
    /\ NonBlankBody(result_response)
    /\ result_response.json.t \notin {"invalid", "unset"}
    /\ ~Truthy(result_response.json)

\* C17: a check-result body that is not blank and parses to a falsy value
\* ({} or null) is taken as "not ready": before the 10th attempt the loop
\* goes on with no row written for the URL, and on the 10th attempt
\* check_url returns None (the timeout), although not every body of the 10
\* was blank.
C17_FalsyResultKeepsPolling ==
    FalsyResult =>
        /\ ~all_empty
        /\ PollCalls = attempt
        /\ attempt < 10 => (pc = "poll" /\ Len(results) = idx - 1)
        /\ attempt >= 10 => (attempt = 10 /\ ReturnedNone)

C17_Witness ==
    /\ FalsyResult
    /\ result_response = PollEmptyDict
    /\ attempt = 10
    /\ PollCalls = 10
    /\ ~all_empty
    /\ ReturnedNone

\* the requests made for the current URL: exactly one probe, at most two
\* check-http and at most ten check-result requests
RequestsBounded ==
    pc \in {"submit", "resubmit", "poll", "probe", "done", "crashed"} =>
        /\ (calls # <<>>) => Len(CallsOf("probe")) = 1
        /\ SubmitCalls <= 2
        /\ PollCalls <= 10
        /\ Len(SelectSeq(calls, LAMBDA c : c.kind # "sleep")) <= 13

\* the batch is over with one row per URL
BatchComplete ==
    /\ pc \in {"done", "warned"}
    /\ Len(results) = Len(urls)

\* C18: every request returning or raising, each URL is processed with one
\* probe, at most 2 check-http and at most 10 check-result requests, and
\* the batch of N URLs comes to its end with N rows.
C18_TerminatesWithAllRows == [](RequestsBounded) /\ <>(BatchComplete)

====
